---- MODULE Spec2Model ----
(***************************************************************************)
(* A model of yahc's single-threaded hash-consing table                    *)
(* (src/src/unsync/mod.rs, src/src/unsync/table.rs).                       *)
(*                                                                         *)
(* The heap is the sequence of Rc allocations made by Hc::new_unchecked.   *)
(* An owning handle Hc is the pair (id, data) of mod.rs:35-39, data being  *)
(* the index of its Rc allocation; a Weak is the same pair without         *)
(* ownership.  A value T is a record [op, cs]: an operator and the owning  *)
(* handles of its children, as TermInner of the tests (mod.rs:262-266).    *)
(***************************************************************************)
EXTENDS Integers, Sequences, FiniteSets, Bags, TLC

\* Bounds of the model.
MaxId == 2        \* allocations (fresh entries) made in one behaviour
MaxHeld == 2      \* owning handles a client holds at once
MaxWeaks == 1     \* weak handles a client holds at once
MaxQueue == 1     \* pending-queue length a client operation may leave behind
MaxModules == 3   \* modules that expand generate_hashcons_unsync!
MaxCache == 2     \* entries of the weak-keyed cache
MaxIter == 4      \* iterations of the collector's loop in one call

LeafOps == {"Val3", "Val4"}

\* The value types a table is generated for (Lang and TermInner of the tests).
ValueTypes == {"Lang", "TermInner"}

VARIABLES
    heap,        \* Seq of [strong, data]: the Rc<T> allocations
    table,       \* InnerTable.table: set of [key, hc] entries of the HashMap<T, Hc<T>>
    to_collect,  \* InnerTable.gc.to_collect: Vec<Weak<T>>
    next_id,     \* the table's identifier counter
    held,        \* bag of the owning handles held by client code
    weaks,       \* set of the weak handles held by client code
    failure,     \* "none", or the message of the panic that ended the program
    last,        \* the last operation: its name, arguments, result and pre-state
    hc_table,    \* per module: the HC_TABLE its expansion of the macro defines
    cache,       \* CacheOf.inner: set of [k, v] entries of the HashMap<Weak, V>
    gc_run,      \* the call of InnerTable::gc in progress: [on, s], s its bundle
    gc_iter      \* the iterations of the loop that call has completed

vars == <<heap, table, to_collect, next_id, held, weaks, failure, last, hc_table, cache,
          gc_run, gc_iter>>

\* The variables of one table and its client.
tableVars == <<heap, table, to_collect, next_id, held, weaks, failure, last>>

NoHc == [id |-> 0, data |-> 0]
NoData == [op |-> "freed", cs |-> <<>>]
Leaf(op) == [op |-> op, cs |-> <<>>]

----------------------------------------------------------------------------
\* Handles

NewUnchecked_IdDefault(id, slot) == [id |-> 0, data |-> slot]

\* Hc::new_unchecked: the handle of a fresh Rc allocation `slot` with identifier id.
NewUnchecked(id, slot) == [id |-> id, data |-> slot]

\* Hc::id / Weak::id
Id(h) == h.id

\* impl PartialEq for Hc / Weak: equality by identifier alone.
HcEq(a, b) == Id(a) = Id(b)

\* Hc::downgrade
Downgrade(h) == [id |-> h.id, data |-> h.data]

\* Hc::strong_count / std::rc::Weak::strong_count
StrongCount(hp, h) == hp[h.data].strong

\* Deref for Hc
Deref(hp, h) == hp[h.data].data

\* derive(PartialEq) on the value type: the operators agree and the children
\* agree pairwise under Hc's equality.
KeyEq(a, b) ==
    /\ a.op = b.op
    /\ Len(a.cs) = Len(b.cs)
    /\ \A i \in 1..Len(a.cs) : HcEq(a.cs[i], b.cs[i])

\* Rc::clone of the allocation behind h.
RcClone(hp, h) == [hp EXCEPT ![h.data].strong = @ + 1]

RECURSIVE CloneAll(_, _, _)
\* Clone of a value: clones cs[i..] in order (derive(Clone) on the value type).
CloneAll(hp, cs, i) ==
    IF i > Len(cs) THEN hp ELSE CloneAll(RcClone(hp, cs[i]), cs, i + 1)

----------------------------------------------------------------------------
\* Destruction.  A bundle s = [heap, queue, table, collected, borrowed, failure]
\* is the part of the program state a running operation works on: the Rc
\* allocations, the pending queue, the canonical map, the collector's counter,
\* whether the queue's RefCell is exclusively borrowed, and the fatal error
\* raised so far ("none" when there is none).  Two more fields record what a
\* run of the collector did: pops, the number of weak handles it popped, and
\* log, one record per removal [t, kids, pushed]: the weak handle popped, the
\* allocations of the children of its value, and the weak handles pushed
\* onto the queue while the entry was removed.

Bundle(hp, q, tbl) ==
    [heap |-> hp, queue |-> q, table |-> tbl, collected |-> 0,
     borrowed |-> FALSE, failure |-> "none", pops |-> 0, log |-> <<>>]

\* Table::add_to_gc: push w, or panic when the queue is exclusively borrowed.
AddToGc(s, w) ==
    IF s.borrowed
    THEN [s EXCEPT !.failure = IF @ = "none" THEN "Failed to add to gc queue" ELSE @]
    ELSE [s EXCEPT !.queue = Append(@, w)]

RECURSIVE RcDrop(_, _, _), HcDrop(_, _, _), DropAll(_, _, _, _)

\* Drop of one Rc<T>: the count goes down, and at zero the value is dropped,
\* which drops the handles of its children in order.
RcDrop(s, h, p) ==
    IF s.heap[h.data].strong = 1
    THEN DropAll([s EXCEPT !.heap[h.data] = [strong |-> 0, data |-> NoData]],
                 s.heap[h.data].data.cs, 1, p)
    ELSE [s EXCEPT !.heap[h.data].strong = @ - 1]

HcDrop_Eager(s, h, p) ==
    LET s1 == RcDrop(s, h, p) IN
    IF StrongCount(s.heap, h) = 2 /\ ~p
    THEN [s1 EXCEPT !.table = {e \in @ : e.hc.data # h.data}]
    ELSE s1

HcDrop_AtLeastTwo(s, h, p) ==
    RcDrop(IF StrongCount(s.heap, h) >= 2 /\ ~p THEN AddToGc(s, Downgrade(h)) ELSE s,
           h, p)

HcDrop_CountAfter(s, h, p) ==
    RcDrop(IF StrongCount(s.heap, h) = 1 /\ ~p THEN AddToGc(s, Downgrade(h)) ELSE s,
           h, p)

HcDrop_NoPanicCheck(s, h, p) ==
    RcDrop(IF StrongCount(s.heap, h) = 2 THEN AddToGc(s, Downgrade(h)) ELSE s,
           h, p)

\* impl Drop for Hc, followed by the drop of its field `data`: when the count
\* is exactly two and the thread is not panicking (p), a weak handle is queued.
HcDrop(s, h, p) ==
    RcDrop(IF StrongCount(s.heap, h) = 2 /\ ~p THEN AddToGc(s, Downgrade(h)) ELSE s,
           h, p)

\* Drop of a value's children cs[i..], in order.
DropAll(s, cs, i, p) ==
    IF i > Len(cs) THEN s ELSE DropAll(HcDrop(s, cs[i], p), cs, i + 1, p)

----------------------------------------------------------------------------
\* The canonical map

\* HashMap lookup: the entries whose key equals data.
Lookup(tbl, data) == {e \in tbl : KeyEq(e.key, data)}

\* Table::len
TableLen(tbl) == Cardinality(tbl)

Allocate_NoIncrement(n) == n

\* The identifier allocator: the next unused identifier of the table.
Allocate(n) == n + 1

Create_NoDedup(s, data, nid, p) ==
    LET slot == Len(s.heap) + 1
        hc == NewUnchecked(Allocate(nid), slot)
        hp1 == Append(CloneAll(s.heap, data.cs, 1), [strong |-> 1, data |-> data])
    IN [s |-> [s EXCEPT !.heap = RcClone(hp1, hc),
                        !.table = @ \cup {[key |-> data, hc |-> hc]}],
        ret |-> hc, id |-> Allocate(nid)]

\* InnerTable::create on bundle s; the result is [s, ret, id]: the bundle
\* after the call, the handle returned and the counter after the call.
\* Occupied: the key passed in is dropped and the stored handle is cloned.
\* Vacant: the key is cloned into a fresh Rc, the new handle is stored under
\* the key, and a clone of it is returned.
Create(s, data, nid, p) ==
    LET found == Lookup(s.table, data) IN
    IF found # {}
    THEN LET e == CHOOSE x \in found : TRUE
             s1 == DropAll(s, data.cs, 1, p)
         IN [s |-> [s1 EXCEPT !.heap = RcClone(@, e.hc)], ret |-> e.hc, id |-> nid]
    ELSE LET slot == Len(s.heap) + 1
             hc == NewUnchecked(Allocate(nid), slot)
             hp1 == Append(CloneAll(s.heap, data.cs, 1), [strong |-> 1, data |-> data])
         IN [s |-> [s EXCEPT !.heap = RcClone(hp1, hc),
                             !.table = @ \cup {[key |-> data, hc |-> hc]}],
             ret |-> hc, id |-> Allocate(nid)]

----------------------------------------------------------------------------
\* The collector

GcPop_GuardHeld(s) ==
    [s EXCEPT !.queue = SubSeq(@, 1, Len(@) - 1), !.borrowed = TRUE, !.pops = @ + 1]

\* to_collect.pop() inside its own scope: the queue's RefCell is borrowed for
\* the pop and released at the end of the block.
GcPop(s) ==
    [s EXCEPT !.queue = SubSeq(@, 1, Len(@) - 1), !.borrowed = FALSE, !.pops = @ + 1]

GcRemove_HcFirst(s, t) ==
    LET s1 == [s EXCEPT !.heap = RcClone(@, t)]
        found == Lookup(s1.table, Deref(s1.heap, t))
    IN IF StrongCount(s.heap, t) = 0 \/ found = {}
       THEN [s EXCEPT !.failure = "missing from table"]
       ELSE LET e == CHOOSE x \in found : TRUE
                s2 == DropAll([s1 EXCEPT !.table = @ \ {e}], e.key.cs, 1, FALSE)
                s3 == HcDrop(s2, e.hc, FALSE)
            IN RcDrop(s3, t, FALSE)

\* table.rs:180-183 for a popped weak handle t whose count is one: rc is the
\* upgrade of t; the entry under *rc is removed, which drops its key; rc is
\* released at the end of the block; the removed handle is dropped last.
GcRemove(s, t) ==
    LET s1 == [s EXCEPT !.heap = RcClone(@, t)]
        found == Lookup(s1.table, Deref(s1.heap, t))
    IN IF StrongCount(s.heap, t) = 0 \/ found = {}
       THEN [s EXCEPT !.failure = "missing from table"]
       ELSE LET e == CHOOSE x \in found : TRUE
                s2 == DropAll([s1 EXCEPT !.table = @ \ {e}], e.key.cs, 1, FALSE)
                s3 == RcDrop(s2, t, FALSE)
            IN HcDrop(s3, e.hc, FALSE)

RECURSIVE GcLoop_WrongCount(_)
GcLoop_WrongCount(s) ==
    IF s.queue = <<>> \/ s.failure # "none" THEN s
    ELSE LET t == s.queue[Len(s.queue)]
             s1 == GcPop(s)
         IN IF StrongCount(s1.heap, t) # 2
            THEN GcLoop_WrongCount(s1)
            ELSE GcLoop_WrongCount(GcRemove([s1 EXCEPT !.collected = @ + 1], t))

RECURSIVE GcLoop_NoRecheck(_)
GcLoop_NoRecheck(s) ==
    IF s.queue = <<>> \/ s.failure # "none" THEN s
    ELSE LET t == s.queue[Len(s.queue)]
             s1 == GcPop(s)
         IN IF StrongCount(s1.heap, t) = 0
            THEN GcLoop_NoRecheck(s1)
            ELSE GcLoop_NoRecheck(GcRemove([s1 EXCEPT !.collected = @ + 1], t))

RECURSIVE GcLoop_OffByOne(_)
GcLoop_OffByOne(s) ==
    IF s.queue = <<>> \/ s.failure # "none" THEN s
    ELSE LET t == s.queue[Len(s.queue)]
             s1 == GcPop(s)
         IN IF StrongCount(s1.heap, t) > 2 \/ StrongCount(s1.heap, t) = 0
            THEN GcLoop_OffByOne(s1)
            ELSE GcLoop_OffByOne(GcRemove([s1 EXCEPT !.collected = @ + 1], t))

RECURSIVE GcLoop_CountSkipped(_)
GcLoop_CountSkipped(s) ==
    IF s.queue = <<>> \/ s.failure # "none" THEN s
    ELSE LET t == s.queue[Len(s.queue)]
             s1 == [GcPop(s) EXCEPT !.collected = @ + 1]
         IN IF StrongCount(s1.heap, t) # 1
            THEN GcLoop_CountSkipped(s1)
            ELSE GcLoop_CountSkipped(GcRemove(s1, t))

RECURSIVE GcPass(_, _)
GcPass(s, todo) ==
    IF todo = <<>> \/ s.failure # "none" THEN s
    ELSE LET t == todo[Len(todo)]
             rest == SubSeq(todo, 1, Len(todo) - 1)
         IN IF StrongCount(s.heap, t) # 1
            THEN GcPass(s, rest)
            ELSE GcPass(GcRemove([s EXCEPT !.collected = @ + 1], t), rest)

GcLoop_Snapshot(s) == GcPass([s EXCEPT !.queue = <<>>], s.queue)

\* The record of the removal that took bundle s1 to s2 for the weak handle t.
Removal(s1, s2, t) ==
    [t |-> t,
     kids |-> {Deref(s1.heap, t).cs[i].data : i \in 1..Len(Deref(s1.heap, t).cs)},
     pushed |-> SubSeq(s2.queue, Len(s1.queue) + 1, Len(s2.queue))]

RECURSIVE GcLoop_NoCountCheck(_)
GcLoop_NoCountCheck(s) ==
    IF s.queue = <<>> \/ s.failure # "none" THEN s
    ELSE LET t == s.queue[Len(s.queue)]
             s1 == GcPop(s)
             s2 == GcRemove([s1 EXCEPT !.collected = @ + 1], t)
         IN GcLoop_NoCountCheck([s2 EXCEPT !.log = Append(@, Removal(s1, s2, t))])

GcIteration_SkipOnlyLive(s) ==
    LET t == s.queue[Len(s.queue)]
        s1 == GcPop(s)
    IN IF StrongCount(s1.heap, t) > 1
       THEN s1
       ELSE LET s2 == GcRemove([s1 EXCEPT !.collected = @ + 1], t)
            IN [s2 EXCEPT !.log = Append(@, Removal(s1, s2, t))]

GcIteration_Peek(s) ==
    LET t == s.queue[Len(s.queue)]
        s1 == GcPop(s)
    IN IF StrongCount(s.heap, t) # 1
       THEN s
       ELSE LET s2 == GcRemove([s1 EXCEPT !.collected = @ + 1], t)
            IN [s2 EXCEPT !.log = Append(@, Removal(s1, s2, t))]

\* One iteration of the loop of InnerTable::gc on a non-empty queue: the pop,
\* the check of the count, and the removal.
GcIteration(s) ==
    LET t == s.queue[Len(s.queue)]
        s1 == GcPop(s)
    IN IF StrongCount(s1.heap, t) # 1
       THEN s1
       ELSE LET s2 == GcRemove([s1 EXCEPT !.collected = @ + 1], t)
            IN [s2 EXCEPT !.log = Append(@, Removal(s1, s2, t))]

\* The loop is left when the pop finds the queue empty (or a panic unwinds).
GcDone(s) == s.queue = <<>> \/ s.failure # "none"

RECURSIVE GcLoop(_)
\* The loop of InnerTable::gc.
GcLoop(s) == IF GcDone(s) THEN s ELSE GcLoop(GcIteration(s))

InnerGc_CountFromOne(s) == GcLoop([s EXCEPT !.collected = 1])

\* InnerTable::gc when the thread is not panicking.
InnerGc(s) == GcLoop([s EXCEPT !.collected = 0])

----------------------------------------------------------------------------
UpgradeRet_NoId(hp, w) == IF StrongCount(hp, w) > 0 THEN [id |-> 0, data |-> w.data] ELSE NoHc

\* Weak::upgrade: an owning handle with the weak handle's identifier while the
\* allocation still has an owner, NoHc (None) otherwise.
UpgradeRet(hp, w) == IF StrongCount(hp, w) > 0 THEN [id |-> Id(w), data |-> w.data] ELSE NoHc

\* Clone for Hc
HcClone(h) == [id |-> h.id, data |-> h.data]

----------------------------------------------------------------------------
\* The program: client code holding handles and calling the table.

\* The record of an operation: its name, the value and the handle it was given,
\* the handle or the number it returned, and len() and the pending queue as
\* they were when it was called; for a run of the collector, the number of
\* its pops and the log of its removals.
Op(name, val, arg, ret, n) ==
    [op |-> name, val |-> val, arg |-> arg, ret |-> ret, n |-> n,
     len |-> TableLen(table), q |-> to_collect, pops |-> 0, log |-> <<>>]

\* A module that has not expanded the macro has no table.
Modules == 1..MaxModules
Unbound == [ty |-> "none", interned |-> {}]

\* No call of gc is in progress.
Idle == [on |-> FALSE, s |-> Bundle(<<>>, <<>>, {})]

Init ==
    /\ heap = <<>>
    /\ table = {}
    /\ to_collect = <<>>
    /\ next_id = 0
    /\ held = EmptyBag
    /\ weaks = {}
    /\ failure = "none"
    /\ last = Op("init", NoData, NoHc, NoHc, 0)
    /\ hc_table = [m \in Modules |-> Unbound]
    /\ cache = {}
    /\ gc_run = Idle
    /\ gc_iter = 0

\* The client can act: no panic has ended the program and control is not
\* inside a call of gc.
Running == failure = "none" /\ ~gc_run.on

One(h) == SetToBag({h})

\* Hc::new(data) by client code that gives up the handles in `moved` (the
\* children of data) and keeps the handle returned.
CallCreate(data, moved) ==
    LET r == Create(Bundle(heap, to_collect, table), data, next_id, FALSE) IN
    /\ Running
    /\ BagCardinality(held (-) moved) < MaxHeld
    /\ Len(r.s.heap) <= MaxId
    /\ Len(r.s.queue) <= MaxQueue
    /\ heap' = r.s.heap
    /\ table' = r.s.table
    /\ to_collect' = r.s.queue
    /\ failure' = r.s.failure
    /\ next_id' = r.id
    /\ held' = (held (-) moved) (+) One(r.ret)
    /\ last' = Op("create", data, NoHc, r.ret, 0)
    /\ UNCHANGED <<weaks, hc_table, cache, gc_run, gc_iter>>

\* Hc::new(Val(n))
NewLeaf == \E op \in LeafOps : CallCreate(Leaf(op), EmptyBag)

\* Hc::new(Add(h1, h2)) with two handles the client holds
NewAdd ==
    \E h1 \in BagToSet(held), h2 \in BagToSet(held) :
        /\ h1 = h2 => CopiesIn(h1, held) >= 2
        /\ CallCreate([op |-> "Add", cs |-> <<h1, h2>>], One(h1) (+) One(h2))

\* h.clone()
CloneHc ==
    \E h \in BagToSet(held) :
        /\ Running
        /\ BagCardinality(held) < MaxHeld
        /\ heap' = RcClone(heap, h)
        /\ held' = held (+) One(HcClone(h))
        /\ last' = Op("clone", NoData, h, HcClone(h), 0)
        /\ UNCHANGED <<table, to_collect, next_id, weaks, failure, hc_table, cache, gc_run, gc_iter>>

\* drop(h) by client code; p tells whether the thread is panicking.
CallDrop(h, p) ==
    LET s == HcDrop(Bundle(heap, to_collect, table), h, p) IN
    /\ Running
    /\ Len(s.queue) <= MaxQueue
    /\ heap' = s.heap
    /\ table' = s.table
    /\ to_collect' = s.queue
    /\ failure' = s.failure
    /\ held' = held (-) One(h)
    /\ last' = Op(IF p THEN "unwind" ELSE "drop", NoData, h, NoHc, 0)
    /\ UNCHANGED <<next_id, weaks, hc_table, cache, gc_run, gc_iter>>

\* drop(h) in normal execution
DropHc == \E h \in BagToSet(held) : CallDrop(h, FALSE)

\* Client code panics while it holds h and the panic is caught: h is dropped
\* by the unwinding, with std::thread::panicking() true, and normal execution
\* resumes after catch_unwind.
DropHcUnwinding == \E h \in BagToSet(held) : CallDrop(h, TRUE)

\* Hc::downgrade(&h), the weak handle kept by the client
DowngradeHc ==
    \E h \in BagToSet(held) :
        /\ Running
        /\ Downgrade(h) \notin weaks
        /\ Cardinality(weaks) < MaxWeaks
        /\ weaks' = weaks \cup {Downgrade(h)}
        /\ last' = Op("downgrade", NoData, h, Downgrade(h), 0)
        /\ UNCHANGED <<heap, table, to_collect, next_id, held, failure, hc_table, cache, gc_run, gc_iter>>

\* w.upgrade(), the handle kept by the client when there is one
UpgradeWeak ==
    \E w \in weaks :
        LET r == UpgradeRet(heap, w) IN
        /\ Running
        /\ BagCardinality(held) < MaxHeld
        /\ heap' = IF r = NoHc THEN heap ELSE RcClone(heap, w)
        /\ held' = IF r = NoHc THEN held ELSE held (+) One(r)
        /\ last' = Op("upgrade", NoData, w, r, 0)
        /\ UNCHANGED <<table, to_collect, next_id, weaks, failure, hc_table, cache, gc_run, gc_iter>>

\* drop(w)
DropWeak ==
    \E w \in weaks :
        /\ Running
        /\ weaks' = weaks \ {w}
        /\ last' = Op("dropweak", NoData, w, NoHc, 0)
        /\ UNCHANGED <<heap, table, to_collect, next_id, held, failure, hc_table, cache, gc_run, gc_iter>>

\* Table::gc(): InnerTable::gc, unwrapped
Collect ==
    LET s == InnerGc(Bundle(heap, to_collect, table)) IN
    /\ Running
    /\ heap' = s.heap
    /\ table' = s.table
    /\ to_collect' = s.queue
    /\ failure' = s.failure
    /\ last' = [Op("gc", NoData, NoHc, NoHc, s.collected)
                    EXCEPT !.pops = s.pops, !.log = s.log]
    /\ UNCHANGED <<next_id, held, weaks, hc_table, cache, gc_run, gc_iter>>

Next ==
    \/ NewLeaf
    \/ NewAdd
    \/ CloneHc
    \/ DropHc
    \/ DowngradeHc
    \/ UpgradeWeak
    \/ DropWeak
    \/ Collect
    \/ DropHcUnwinding

Spec == Init /\ [][Next]_vars

\* The program in which no handle is dropped by an unwinding.
NextNoUnwind ==
    \/ NewLeaf
    \/ NewAdd
    \/ CloneHc
    \/ DropHc
    \/ DowngradeHc
    \/ UpgradeWeak
    \/ DropWeak
    \/ Collect

SpecNoUnwind == Init /\ [][NextNoUnwind]_vars

\* drop(h) in a program that drops and re-creates values between two calls
\* of gc, so that the pending queue holds one weak handle more.
DropHcRequeue ==
    \E h \in BagToSet(held) :
        LET s == HcDrop(Bundle(heap, to_collect, table), h, FALSE) IN
        /\ Running
        /\ Len(s.queue) <= MaxQueue + 1
        /\ heap' = s.heap
        /\ table' = s.table
        /\ to_collect' = s.queue
        /\ failure' = s.failure
        /\ held' = held (-) One(h)
        /\ last' = Op("drop", NoData, h, NoHc, 0)
        /\ UNCHANGED <<next_id, weaks, hc_table, cache, gc_run, gc_iter>>

NextRequeue ==
    \/ NewLeaf
    \/ NewAdd
    \/ DropHcRequeue
    \/ DowngradeHc
    \/ DropWeak
    \/ Collect

SpecRequeue == Init /\ [][NextRequeue]_vars

----------------------------------------------------------------------------
\* Table::gc() taken one iteration of its loop at a time.  The thread is
\* inside the call from GcEnter to GcExit, and the client does not act in
\* between; the program state is written back when the call returns.

\* Entry of InnerTable::gc outside of unwinding: collected = 0.
GcEnter ==
    /\ Running
    /\ gc_run' = [on |-> TRUE, s |-> [Bundle(heap, to_collect, table) EXCEPT !.collected = 0]]
    /\ gc_iter' = 0
    /\ UNCHANGED <<tableVars, hc_table, cache>>

\* One iteration of the loop.
GcIterate ==
    /\ gc_run.on
    /\ ~GcDone(gc_run.s)
    /\ gc_iter < MaxIter
    /\ gc_run' = [gc_run EXCEPT !.s = GcIteration(@)]
    /\ gc_iter' = gc_iter + 1
    /\ UNCHANGED <<tableVars, hc_table, cache>>

\* The break out of the loop and the return of Some(collected).
GcExit ==
    /\ gc_run.on
    /\ GcDone(gc_run.s)
    /\ heap' = gc_run.s.heap
    /\ table' = gc_run.s.table
    /\ to_collect' = gc_run.s.queue
    /\ failure' = gc_run.s.failure
    /\ last' = [Op("gc", NoData, NoHc, NoHc, gc_run.s.collected)
                    EXCEPT !.pops = gc_run.s.pops, !.log = gc_run.s.log]
    /\ gc_run' = Idle
    /\ UNCHANGED <<next_id, held, weaks, hc_table, cache, gc_iter>>

NextGcSteps ==
    \/ NewLeaf
    \/ NewAdd
    \/ CloneHc
    \/ DropHc
    \/ GcEnter
    \/ GcIterate
    \/ GcExit

\* A step of GcIterate as the iteration counter shows it: GcIterate is the
\* only action that moves the counter up, and it is enabled exactly when
\* GcAdvance is.
GcAdvance ==
    /\ gc_run.on
    /\ ~GcDone(gc_run.s)
    /\ gc_iter < MaxIter
    /\ gc_iter' = gc_iter + 1

\* The thread that is inside gc keeps running it: it performs the next
\* iteration of the loop, and it returns when the loop is left.
SpecGcSteps ==
    Init /\ [][NextGcSteps]_vars /\ WF_gc_iter(GcAdvance) /\ WF_vars(GcExit)

----------------------------------------------------------------------------
\* Registration: the tables that expansions of generate_hashcons_unsync!
\* bring into existence.  A module stands for its own LocalId, the type the
\* expansion declares; hc_table[m] is the HC_TABLE of module m, with the type
\* of values it interns and the values interned in it so far.

\* Table::new_unchecked: wraps the (empty) thread-local inner table; const and
\* unsafe, it checks nothing.
TableNewUnchecked(ty) == [ty |-> ty, interned |-> {}]

\* generate_hashcons_unsync!(ty) expanded in module m.  A module can hold one
\* expansion only (a second `enum LocalId` in it does not compile); nothing
\* in the expansion depends on what other modules have expanded.
GenerateHashconsUnsync ==
    \E m \in Modules, ty \in ValueTypes :
        /\ hc_table[m] = Unbound
        /\ hc_table' = [hc_table EXCEPT ![m] = TableNewUnchecked(ty)]
        /\ UNCHANGED <<tableVars, cache, gc_run, gc_iter>>

\* Hc::new(v) through the Hc alias of module m: <LocalId as TableId>::table()
\* is that module's HC_TABLE.
HcNewIn ==
    \E m \in Modules, op \in LeafOps :
        /\ hc_table[m] # Unbound
        /\ hc_table' = [hc_table EXCEPT ![m].interned = @ \cup {Leaf(op)}]
        /\ UNCHANGED <<tableVars, cache, gc_run, gc_iter>>

NextRegistration ==
    \/ GenerateHashconsUnsync
    \/ HcNewIn

SpecRegistration == Init /\ [][NextRegistration]_vars

----------------------------------------------------------------------------
\* The weak-keyed cache (src/src/cache.rs): a HashMap from Weak to values.

\* The values a client caches.
CacheVals == {"x", "y"}

\* impl PartialEq for Weak: by identifier.
WeakEq(a, b) == Id(a) = Id(b)

\* The orders in which a HashMap may visit the entries es.
Orders(es) ==
    {f \in [1..Cardinality(es) -> es] :
        \A i, j \in 1..Cardinality(es) : f[i] = f[j] => i = j}

RECURSIVE Retain_Inverted(_, _, _, _)
Retain_Inverted(s, es, i, kept) ==
    IF i > Len(es) THEN [s |-> s, kept |-> kept]
    ELSE LET r == UpgradeRet(s.heap, es[i].k) IN
         IF r = NoHc
         THEN Retain_Inverted(s, es, i + 1, kept \cup {es[i]})
         ELSE Retain_Inverted(HcDrop([s EXCEPT !.heap = RcClone(@, r)], r, FALSE),
                              es, i + 1, kept)

RECURSIVE Retain(_, _, _, _)
\* inner.retain(|k, _| k.upgrade().is_some()) visiting the entries es[i..] in
\* order: the key is upgraded, which makes a temporary owning handle when the
\* allocation is alive; the temporary is dropped at the end of the closure,
\* as any Hc is; the entry is kept when there was one.  The result is the
\* bundle after the call and the entries kept.
Retain(s, es, i, kept) ==
    IF i > Len(es) THEN [s |-> s, kept |-> kept]
    ELSE LET r == UpgradeRet(s.heap, es[i].k) IN
         IF r = NoHc
         THEN Retain(s, es, i + 1, kept)
         ELSE Retain(HcDrop([s EXCEPT !.heap = RcClone(@, r)], r, FALSE),
                     es, i + 1, kept \cup {es[i]})

\* cache.insert(Hc::downgrade(&h), v) through DerefMut: an entry with an equal
\* key keeps its key and takes the new value.
CacheInsert ==
    \E h \in BagToSet(held), v \in CacheVals :
        LET w == Downgrade(h)
            old == {c \in cache : WeakEq(c.k, w)}
            k == IF old = {} THEN w ELSE (CHOOSE c \in old : TRUE).k
        IN /\ Running
           /\ cache' = (cache \ old) \cup {[k |-> k, v |-> v]}
           /\ Cardinality(cache') <= MaxCache
           /\ last' = Op("cache_insert", NoData, h, NoHc, 0)
           /\ UNCHANGED <<heap, table, to_collect, next_id, held, weaks, failure, hc_table, gc_run, gc_iter>>

\* CacheOf::collect; the record keeps the number of entries it removed.
CacheCollect ==
    \E es \in Orders(cache) :
        LET r == Retain(Bundle(heap, to_collect, table), es, 1, {}) IN
        /\ Running
        /\ Len(r.s.queue) <= MaxQueue
        /\ heap' = r.s.heap
        /\ table' = r.s.table
        /\ to_collect' = r.s.queue
        /\ failure' = r.s.failure
        /\ cache' = r.kept
        /\ last' = Op("cache_collect", NoData, NoHc, NoHc,
                       Cardinality(cache) - Cardinality(r.kept))
        /\ UNCHANGED <<next_id, held, weaks, hc_table, gc_run, gc_iter>>

\* A client that interns values, caches data under their weak handles, drops
\* its handles and runs both collectors.
NextCache ==
    \/ NewLeaf
    \/ DropHc
    \/ DropHcUnwinding
    \/ Collect
    \/ CacheInsert
    \/ CacheCollect

SpecCache == Init /\ [][NextCache]_vars

----------------------------------------------------------------------------
\* Notions the properties are stated in.

RECURSIVE Deep(_, _)
\* The value v unfolded through the handles of its children: the structure
\* that deep structural equality compares.
Deep(hp, v) == [op |-> v.op, cs |-> [i \in 1..Len(v.cs) |-> Deep(hp, Deref(hp, v.cs[i]))]]

\* The structure behind an owning handle.
DeepOf(hp, h) == Deep(hp, Deref(hp, h))

\* The handles client code holds.
Held == BagToSet(held)

\* The entry of the canonical map that stores the allocation of h, if any.
EntriesOf(tbl, h) == {e \in tbl : e.hc.data = h.data}
Resident(tbl, h) == EntriesOf(tbl, h) # {}

----------------------------------------------------------------------------
\* C1: hash-consing (I1).  In every reachable state the canonical map holds at
\* most one entry per structurally distinct value; and a create call for a
\* value structurally equal to the one behind a handle the client still holds
\* returns a handle with that handle's identifier, adds no entry (len()
\* unchanged) and raises the entry's ownership count by exactly one.
I1 == Cardinality({Deep(heap, e.key) : e \in table}) = Cardinality(table)

C1_HashConsing ==
    [][ /\ I1'
        /\ last'.op = "create" =>
             \A h \in Held :
                 DeepOf(heap, h) = Deep(heap, last'.val) =>
                     /\ Id(last'.ret) = Id(h)
                     /\ TableLen(table') = TableLen(table)
                     /\ StrongCount(heap', h) = StrongCount(heap, h) + 1 ]_vars

\* The second create of a value whose first handle is still held has
\* returned: the client holds two handles of one entry, counted with the
\* table's own.
C1_Witness ==
    /\ last.op = "create"
    /\ CopiesIn(last.ret, held) = 2
    /\ StrongCount(heap, last.ret) = 3
    /\ TableLen(table) = 1

----------------------------------------------------------------------------
\* The children of a value, and every owning handle that exists: those of the
\* client, the stored handles of the canonical map, and the children held by
\* the keys of the map and by the values inside the Rc allocations.
ChildHandles(v) == {v.cs[i] : i \in 1..Len(v.cs)}

LiveHandles ==
    Held \cup {e.hc : e \in table}
         \cup UNION {ChildHandles(e.key) : e \in table}
         \cup UNION {ChildHandles(heap[i].data) : i \in 1..Len(heap)}

----------------------------------------------------------------------------
\* Ownership structure.  An entry's count is one for the stored handle, two
\* for every occurrence as a child of a resident value (the copy in the map's
\* key and the copy in the Rc), and one for every handle of the client.

\* The number of times allocation c occurs among the children of value v.
Occ(v, c) == Cardinality({i \in 1..Len(v.cs) : v.cs[i].data = c})

RECURSIVE OccSum(_, _, _)
\* The occurrences of c among the children of the values in the allocations D.
OccSum(hp, D, c) ==
    IF D = {} THEN 0
    ELSE LET d == CHOOSE x \in D : TRUE
         IN Occ(hp[d].data, c) + OccSum(hp, D \ {d}, c)

\* The allocations outside D that are owned only by the table and by values in D.
Orphans(hp, D) ==
    {c \in (1..Len(hp)) \ D :
        /\ OccSum(hp, D, c) > 0
        /\ hp[c].strong = 1 + 2 * OccSum(hp, D, c)}

RECURSIVE Cascade(_, _)
\* D with every descendant that is owned only through it.
Cascade(hp, D) ==
    IF Orphans(hp, D) = {} THEN D ELSE Cascade(hp, D \cup Orphans(hp, D))

\* The allocations the weak handles of queue q stand for.
Pending(q) == {q[i].data : i \in 1..Len(q)}

\* The allocations client code holds a handle of.
ClientHeld == {h.data : h \in Held}

\* A drop outside of unwinding that leaves the table as the only owner has
\* left the entry's weak handle in the pending queue.
LastDropQueues ==
    (last'.op = "drop" /\ StrongCount(heap', last'.arg) = 1) =>
        last'.arg.data \in Pending(to_collect')

\* Exactly one entry is pending, and the table is its only owner.
OnePendingDead ==
    /\ to_collect # <<>>
    /\ Cardinality(Pending(to_collect)) = 1
    /\ StrongCount(heap, to_collect[1]) = 1

----------------------------------------------------------------------------
\* C3 as stated: when an entry whose outside handles have all been dropped is
\* the only one pending, collect() removes it, len() decreases by exactly one
\* and collect() reports one.
C3_Original ==
    [][ (last'.op = "gc" /\ OnePendingDead) =>
            /\ ~Resident(table', to_collect[1])
            /\ TableLen(table) - TableLen(table') = 1
            /\ last'.n = 1 ]_vars

\* C3, amended: when an entry whose outside handles have all been dropped
\* outside of unwinding (so that its weak handle is pending and its count is
\* one) is the only one pending, collect() removes it; len() decreases by, and
\* collect() reports, one plus the number of descendants owned only through
\* it, which is exactly one for a value without children.
C3_CollectAfterDrop ==
    [][ /\ LastDropQueues
        /\ (last'.op = "gc" /\ OnePendingDead) =>
            /\ ~Resident(table', to_collect[1])
            /\ last'.n = Cardinality(Cascade(heap, Pending(to_collect)))
            /\ TableLen(table) - TableLen(table') = last'.n
            /\ Deref(heap, to_collect[1]).cs = <<>> => last'.n = 1 ]_vars

\* collect() has removed the only entry there was, a leaf whose last handle
\* had been dropped, and reported one.
C3_Witness ==
    /\ last.op = "gc"
    /\ Pending(last.q) = {1}
    /\ last.len = 1
    /\ last.n = 1
    /\ table = {}
    /\ heap[1].strong = 0

----------------------------------------------------------------------------
\* C4: resurrection.  A pending entry that the client holds a handle of again
\* when collect() runs (after create, clone or upgrade) is skipped: it stays
\* in the canonical map under the same stored handle, the client's handle has
\* the identifier of the queued weak handle and still dereferences to the
\* same value; and when every pending entry is such, collect() reports zero
\* and leaves the map (so len()) and every count unchanged.
C4_Resurrection ==
    [][ last'.op = "gc" =>
            /\ \A h \in Held :
                   h.data \in Pending(to_collect) =>
                       /\ EntriesOf(table', h) = EntriesOf(table, h)
                       /\ Resident(table', h)
                       /\ \A i \in 1..Len(to_collect) :
                              to_collect[i].data = h.data => Id(to_collect[i]) = Id(h)
                       /\ Deref(heap', h) = Deref(heap, h)
                       /\ Deref(heap', h) # NoData
            /\ Pending(to_collect) \subseteq ClientHeld =>
                   /\ last'.n = 0
                   /\ table' = table
                   /\ heap' = heap ]_vars

\* collect() has run on a queue holding the weak handle of an entry the client
\* had re-acquired: nothing was collected and the entry is still resident.
C4_Witness ==
    /\ last.op = "gc"
    /\ last.q # <<>>
    /\ Pending(last.q) \subseteq ClientHeld
    /\ last.n = 0
    /\ TableLen(table) = last.len
    /\ \A h \in Held : Resident(table, h)

----------------------------------------------------------------------------
\* The allocations stored in the canonical map.
ResidentSlots(tbl) == {e.hc.data : e \in tbl}

\* The pending allocations whose only owner is the table.
PendingDead == {c \in Pending(to_collect) : heap[c].strong = 1}

----------------------------------------------------------------------------
RECURSIVE Reach(_, _)
\* The allocations S with all their descendants.
Reach(hp, S) ==
    LET kids == {h.data : h \in UNION {ChildHandles(hp[c].data) : c \in S}} IN
    IF kids \subseteq S THEN S ELSE Reach(hp, S \cup kids)

\* Every owning handle that exists refers to a live allocation that the
\* canonical map stores under the handle's identifier.
HandlesResident ==
    \A h \in LiveHandles :
        /\ heap[h.data].strong > 0
        /\ \E e \in table : e.hc = h /\ e.key = heap[h.data].data

\* C6: no premature collection.  Every owning handle, of the client or
\* embedded in a resident value, always refers to a resident entry with its
\* identifier; collect() leaves every entry that the client holds a handle of,
\* and every descendant of such an entry, in the map with its value; and when
\* all entries are such, the map (and len()) is unchanged.
C6_NoPrematureCollection ==
    [][ /\ HandlesResident'
        /\ last'.op = "gc" =>
               /\ \A c \in Reach(heap, ClientHeld) :
                      /\ {e \in table' : e.hc.data = c} = {e \in table : e.hc.data = c}
                      /\ heap'[c].data = heap[c].data
               /\ ResidentSlots(table) \subseteq Reach(heap, ClientHeld) =>
                      table' = table /\ last'.n = 0 ]_vars

\* collect() has run while the client held one handle of a parent (the count
\* is two: the table's and the client's): parent and child are resident.
C6_Witness ==
    /\ last.op = "gc"
    /\ TableLen(table) = 2
    /\ last.len = 2
    /\ \E h \in Held :
           /\ Deref(heap, h).cs # <<>>
           /\ StrongCount(heap, h) = 2
           /\ \A c \in ChildHandles(Deref(heap, h)) : Resident(table, c)

----------------------------------------------------------------------------
\* C7: collection is never automatic.  Dropping an owning handle, at any
\* count and whether or not the thread unwinds, leaves the canonical map
\* unchanged and at most pushes the handle's weak handle onto the pending
\* queue; an entry leaves the map only in a collect() call.
C7_DropOnlyEnqueues ==
    [][ /\ last'.op \in {"drop", "unwind"} =>
               /\ table' = table
               /\ \/ to_collect' = to_collect
                  \/ to_collect' = Append(to_collect, Downgrade(last'.arg))
        /\ ~(table \subseteq table') => last'.op = "gc" ]_vars

\* The client's last handle of an entry has been dropped: the entry is still
\* in the map, owned by the table alone, and its weak handle was pushed.
C7_Witness ==
    /\ last.op = "drop"
    /\ StrongCount(heap, last.arg) = 1
    /\ Resident(table, last.arg)
    /\ TableLen(table) = last.len
    /\ to_collect = Append(last.q, Downgrade(last.arg))

----------------------------------------------------------------------------
\* C8: collect() returns the number of entries it removed from the canonical
\* map, cascaded removals included: it adds no entry, and its result is the
\* number of entries gone, len() before minus len() after, each of them
\* freed.  Skipped weak handles are not counted.
C8_CollectedCount ==
    [][ last'.op = "gc" =>
            /\ table' \subseteq table
            /\ last'.n = Cardinality(table \ table')
            /\ last'.n = TableLen(table) - TableLen(table')
            /\ last'.n = Cardinality({c \in ResidentSlots(table) : heap'[c].strong = 0}) ]_vars

\* collect() has removed one of two entries and reported one; the other one,
\* held by the client, stayed.
C8_Witness ==
    /\ last.op = "gc"
    /\ last.len = 2
    /\ TableLen(table) = 1
    /\ last.n = 1
    /\ Held # {}

----------------------------------------------------------------------------
\* Every handle, owning or weak, that exists.
AllWeaks == weaks \cup {to_collect[i] : i \in 1..Len(to_collect)}

\* C9: identifiers come from the table's counter and are never reused.  A
\* create that adds an entry gives it an identifier greater than the counter
\* and than the identifier of every handle, owning or weak, that exists, and
\* the counter moves up to it; so a weak handle, also one kept across the
\* collection of its entry, is equal (by identifier) to an owning handle only
\* when both stand for the same allocation.
C9_FreshIds ==
    [][ /\ (last'.op = "create" /\ table' # table) =>
               /\ Id(last'.ret) > next_id
               /\ next_id' = Id(last'.ret)
               /\ \A h \in LiveHandles \cup AllWeaks : Id(h) < Id(last'.ret)
        /\ \A w \in AllWeaks', h \in LiveHandles' : HcEq(w, h) => w.data = h.data ]_vars

\* A value has been created after an entry was collected whose weak handle
\* the client still keeps: the new entry has a greater identifier.
C9_Witness ==
    /\ last.op = "create"
    /\ TableLen(table) = last.len + 1
    /\ \E w \in weaks :
           /\ StrongCount(heap, w) = 0
           /\ Id(last.ret) > Id(w)
           /\ ~HcEq(w, last.ret)

----------------------------------------------------------------------------
\* C10: weak handles.  Taking or dropping a weak handle changes no count and
\* no entry.  upgrade() returns an owning handle with the weak handle's
\* identifier, and raises the count by one, exactly when the weak handle's
\* entry is still in the canonical map, which is exactly when its count is
\* positive; otherwise it returns None, changes nothing and raises no error,
\* whatever has been interned since.
C10_WeakUpgrade ==
    [][ /\ last'.op \in {"downgrade", "dropweak"} => heap' = heap /\ table' = table
        /\ \A w \in AllWeaks' : Resident(table', w) <=> StrongCount(heap', w) > 0
        /\ last'.op = "upgrade" =>
               /\ failure' = "none" /\ table' = table
               /\ IF Resident(table, last'.arg)
                  THEN /\ last'.ret = [id |-> Id(last'.arg), data |-> last'.arg.data]
                       /\ \E e \in table : e.hc = last'.ret
                       /\ heap' = RcClone(heap, last'.arg)
                       /\ held' = held (+) One(last'.ret)
                  ELSE /\ last'.ret = NoHc
                       /\ heap' = heap
                       /\ held' = held ]_vars

\* upgrade() of a weak handle whose entry was collected has returned None,
\* although a value has been interned since.
C10_Witness ==
    /\ last.op = "upgrade"
    /\ last.ret = NoHc
    /\ StrongCount(heap, last.arg) = 0
    /\ table # {}
    /\ failure = "none"

----------------------------------------------------------------------------
\* C11: collect() on an empty pending queue returns zero and changes nothing:
\* the canonical map, every ownership count, the queue, the client's handles
\* and the identifier counter are the same after the call.  The state after
\* the call is therefore a state with an empty queue again, so a repeated
\* call returns zero again.
C11_EmptyCollect ==
    [][ last'.op = "gc" /\ to_collect = <<>> =>
            /\ last'.n = 0
            /\ table' = table
            /\ heap' = heap
            /\ to_collect' = <<>>
            /\ failure' = "none"
            /\ UNCHANGED <<next_id, held, weaks>> ]_vars

\* collect() has returned zero from an empty queue while the map held an
\* entry owned by the table alone (its last handle went in an unwinding), and
\* the entry is still there.
C11_Witness ==
    /\ last.op = "gc"
    /\ last.q = <<>>
    /\ last.n = 0
    /\ to_collect = <<>>
    /\ \E e \in table : StrongCount(heap, e.hc) = 1

----------------------------------------------------------------------------
\* C12: single table per type (I2).  Each concrete value type is bound to at
\* most one table: no two modules hold a table for the same value type, so a
\* value of a type is never resident in two tables.
C12_SingleTable ==
    \A m1, m2 \in Modules :
        hc_table[m1] # Unbound /\ hc_table[m1].ty = hc_table[m2].ty => m1 = m2

----------------------------------------------------------------------------
\* C13: the weak-keyed cache.  Its collect() keeps, with their values, exactly
\* the entries whose key's entry is resident in the table (the key upgrades)
\* and removes the others, changing neither the canonical map nor any count;
\* and the table's collect() removes every pending entry owned by the table
\* alone, whether or not the cache holds its key.
C13_CacheCollect ==
    [][ /\ last'.op = "cache_collect" =>
            /\ cache' = {c \in cache : Resident(table, c.k)}
            /\ last'.n = Cardinality(cache \ cache')
            /\ \A c \in cache : Resident(table, c.k) <=> UpgradeRet(heap, c.k) # NoHc
            /\ table' = table
            /\ heap' = heap
        /\ last'.op = "gc" =>
            /\ cache' = cache
            /\ \A c \in cache :
                   c.k.data \in PendingDead => ~Resident(table', c.k) ]_vars

\* The cache's collect() has just removed the entry of a key whose table entry
\* the table's collect() had removed while the cache held the key, and kept
\* the entry of a key that still upgrades.
C13_Witness ==
    /\ last.op = "cache_collect"
    /\ last.n = 1
    /\ \E c \in cache : StrongCount(heap, c.k) > 0 /\ Resident(table, c.k)
    /\ \E i \in 1..Len(heap) : heap[i].strong = 0
    /\ TableLen(table) = 1
    /\ Cardinality(cache) = 1

----------------------------------------------------------------------------
\* C14: the threshold of the destruction hook.  A drop outside of unwinding
\* pushes a weak handle with the dropped handle's identifier and allocation
\* onto the pending queue if and only if the count observed by the drop is
\* exactly two; at any other count it leaves the queue as it was.  This holds
\* of every drop the client performs, and of the drop of any owning handle
\* that exists (the client's, the table's stored ones, the children inside
\* resident values) were it destroyed in the current state: at a count above
\* two nothing is pushed, and at count one the handle itself is not pushed.
C14_HookThreshold ==
    [][ /\ last'.op = "drop" =>
            IF StrongCount(heap, last'.arg) = 2
            THEN to_collect' = Append(to_collect, Downgrade(last'.arg))
            ELSE to_collect' = to_collect
        /\ \A h \in LiveHandles :
               LET q == HcDrop(Bundle(heap, to_collect, table), h, FALSE).queue IN
               /\ StrongCount(heap, h) = 2 => q = Append(to_collect, Downgrade(h))
               /\ StrongCount(heap, h) > 2 => q = to_collect
               /\ StrongCount(heap, h) = 1 =>
                      /\ SubSeq(q, 1, Len(to_collect)) = to_collect
                      /\ \A i \in Len(to_collect) + 1 .. Len(q) : q[i].data # h.data ]_vars

\* A drop at count two has pushed the weak handle of the dropped handle.
C14_Witness ==
    /\ last.op = "drop"
    /\ StrongCount(heap, last.arg) = 1
    /\ to_collect = Append(last.q, Downgrade(last.arg))
    /\ Id(to_collect[Len(to_collect)]) = Id(last.arg)
    /\ \E h \in Held : StrongCount(heap, h) > 2

----------------------------------------------------------------------------
\* C15: release before removal.  In every removal collect() performs, also
\* the cascaded ones, the weak handles pushed onto the pending queue while the
\* entry is removed are those of children of the removed value and never the
\* removed entry's own: the temporary owner is gone when the stored handle is
\* dropped, so the drop observes count one and takes the count to zero.
C15_ReleaseBeforeRemoval ==
    [][ last'.op = "gc" =>
            \A i \in 1..Len(last'.log) :
                LET r == last'.log[i] IN
                /\ \A j \in 1..Len(r.pushed) :
                       /\ r.pushed[j].data # r.t.data
                       /\ r.pushed[j].data \in r.kids
                /\ heap'[r.t.data].strong = 0 ]_vars

\* collect() has removed a parent and then, in the same call, a child that the
\* parent's removal pushed onto the queue.
C15_Witness ==
    /\ last.op = "gc"
    /\ Len(last.log) >= 2
    /\ last.log[1].pushed # <<>>
    /\ last.log[2].t \in {last.log[1].pushed[j] : j \in 1..Len(last.log[1].pushed)}
    /\ failure = "none"

----------------------------------------------------------------------------
\* C16: re-entrancy.  The pending queue is never found exclusively borrowed
\* by a destructor: the failure "Failed to add to gc queue" is not reachable,
\* and every child that a run of collect() freed was pushed onto the queue by
\* one of the removals of that run, after the guard of the pop was released.
C16_NoQueueConflict ==
    /\ failure # "Failed to add to gc queue"
    /\ last.op = "gc" =>
           \A i \in 1..Len(last.log) :
               \A k \in last.log[i].kids :
                   heap[k].strong = 0 =>
                       \E j \in 1..Len(last.log) :
                           k \in {w.data : w \in {last.log[j].pushed[x] :
                                                     x \in 1..Len(last.log[j].pushed)}}

\* collect() has popped more weak handles than were pending when it was
\* called: a removal pushed a child, the push found the queue free and the
\* child was collected in the same call.
C16_Witness ==
    /\ last.op = "gc"
    /\ last.pops > Len(last.q)
    /\ last.n = 2
    /\ TableLen(table) = 0
    /\ failure = "none"

----------------------------------------------------------------------------
\* C17: the entry of a dead weak handle is never missing.  The failure
\* "missing from table" is not reachable; and every weak handle in the
\* pending queue whose allocation has count exactly one upgrades, and the
\* canonical map holds, under the value of that allocation, an entry whose
\* stored handle is the weak handle's allocation and identifier: the table is
\* the sole owner.  collect() removes exactly the entries it logged.
C17_NeverMissing ==
    /\ failure # "missing from table"
    /\ \A i \in 1..Len(to_collect) :
           LET t == to_collect[i] IN
           StrongCount(heap, t) = 1 =>
               /\ UpgradeRet(heap, t) # NoHc
               /\ \E e \in Lookup(table, Deref(heap, t)) :
                      e.hc = [id |-> Id(t), data |-> t.data]
    /\ last.op = "gc" =>
           /\ last.n = Len(last.log)
           /\ \A i \in 1..Len(last.log) : ~Resident(table, last.log[i].t)

\* collect() has popped the weak handle of an entry owned by the table alone,
\* found the entry in the map and removed it, and left another entry alone.
C17_Witness ==
    /\ last.op = "gc"
    /\ Len(last.log) = 1
    /\ last.log[1].t = last.q[Len(last.q)]
    /\ last.len = 2
    /\ TableLen(table) = 1
    /\ failure = "none"

----------------------------------------------------------------------------
\* Values are built children-first: the children of the value in an
\* allocation live in allocations made before it.
Acyclic == \A i \in 1..Len(heap) : \A h \in ChildHandles(heap[i].data) : h.data < i

\* The weak handles pushed during the removals logged in log.
RECURSIVE Pushes(_)
Pushes(log) == IF log = <<>> THEN 0 ELSE Len(log[1].pushed) + Pushes(Tail(log))

\* C18: collect() terminates with the pending queue empty.  A call that has
\* been entered always returns, and when it returns the queue is empty; it
\* has popped every weak handle that was pending when it was called and every
\* one pushed during the call, which is at most one per entry that was
\* resident, the values forming an acyclic graph.
C18_Terminates ==
    /\ gc_run.on ~> (~gc_run.on /\ last.op = "gc" /\ to_collect = <<>>)
    /\ [](Acyclic /\ (gc_run.on => /\ gc_run.s.pops = gc_iter
                                    /\ gc_iter <= Len(to_collect) + TableLen(table)))
    /\ []((last.op = "gc" /\ ~gc_run.on) =>
              /\ last.pops = Len(last.q) + Pushes(last.log)
              /\ Pushes(last.log) <= last.len
              /\ last.pops <= Len(last.q) + last.len)

\* A call of collect() has returned with the queue empty after popping the
\* weak handle that was pending and one that a removal pushed during the call.
C18_Witness ==
    /\ ~gc_run.on
    /\ last.op = "gc"
    /\ last.pops = 2
    /\ Len(last.q) = 1
    /\ Pushes(last.log) = 1
    /\ to_collect = <<>>

----------------------------------------------------------------------------
\* C19: a drop during unwinding skips the enqueue.  When an owning handle is
\* destroyed while the thread is panicking, the pending queue and the
\* canonical map are left as they were, also when the count observed is two:
\* only the count of the handle's allocation goes down by one, and the drop
\* raises no further failure.
C19_UnwindingSkipsEnqueue ==
    [][ last'.op = "unwind" =>
            /\ to_collect' = to_collect
            /\ table' = table
            /\ heap' = [heap EXCEPT ![last'.arg.data].strong = @ - 1]
            /\ failure' = "none" ]_vars

\* A handle has been dropped in an unwinding at count two: its entry is
\* resident, the table owns it alone, and it is not pending.
C19_Witness ==
    /\ last.op = "unwind"
    /\ StrongCount(heap, last.arg) = 1
    /\ Resident(table, last.arg)
    /\ to_collect = last.q
    /\ last.arg.data \notin Pending(to_collect)

----------------------------------------------------------------------------
\* C20: no leak.  In every state reached without unwinding, between the
\* operations of the client, every resident entry that only the table owns
\* has a weak handle in the pending queue; and when collect() has returned,
\* no resident entry is owned by the table alone: each is referenced by a
\* handle of the client or by the value of another resident entry.
C20_NoLeak ==
    /\ \A e \in table :
           StrongCount(heap, e.hc) = 1 => e.hc.data \in Pending(to_collect)
    /\ last.op = "gc" =>
           \A e \in table :
               /\ StrongCount(heap, e.hc) > 1
               /\ \/ e.hc.data \in ClientHeld
                  \/ \E e2 \in table : e.hc \in ChildHandles(e2.key)

\* collect() has returned after popping a pending weak handle, and has left
\* resident an entry that no handle of the client refers to: a child of a
\* resident value.
C20_Witness ==
    /\ last.op = "gc"
    /\ last.q # <<>>
    /\ \E e \in table : e.hc.data \notin ClientHeld
    /\ \E e \in table : e.hc.data \in ClientHeld
    /\ to_collect = <<>>

----------------------------------------------------------------------------
\* The allocations that the removals logged in log removed.
Removed(log) == {log[i].t.data : i \in 1..Len(log)}

\* What gc() does to the current state when the pending queue is q.
GcOn(q) == InnerGc(Bundle(heap, q, table))

\* C21: duplicate and stale queue entries.  The pending queue may hold the
\* weak handle of one entry several times.  collect() pops every one of
\* them, removes and counts each entry at most once (exactly once when the
\* table is its only owner), and fails on none: the handles left over, whose
\* count is zero by then, are skipped.  A weak handle whose allocation has
\* count zero, put at either end of the queue, changes nothing in what
\* collect() removes and counts, whatever has been created since, also an
\* entry for a structurally equal value.
C21_DuplicateAndStale ==
    [][ /\ last'.op = "gc" =>
            /\ failure' = "none"
            /\ last'.pops = Len(to_collect) + Pushes(last'.log)
            /\ last'.n = Len(last'.log)
            /\ last'.n = Cardinality(Removed(last'.log))
            /\ last'.n = TableLen(table) - TableLen(table')
            /\ PendingDead \subseteq Removed(last'.log)
        /\ \A w \in weaks :
               StrongCount(heap, w) = 0 =>
                   \A q \in {Append(to_collect, w), <<w>> \o to_collect} :
                       /\ GcOn(q).table = GcOn(to_collect).table
                       /\ GcOn(q).heap = GcOn(to_collect).heap
                       /\ GcOn(q).collected = GcOn(to_collect).collected
                       /\ GcOn(q).pops = GcOn(to_collect).pops + 1
                       /\ GcOn(q).failure = "none" ]_vars

\* collect() has returned one after popping two weak handles of the same
\* entry, which an earlier drop, a re-creation and a second drop had queued.
C21_Witness ==
    /\ last.op = "gc"
    /\ Len(last.q) = 2
    /\ last.q[1] = last.q[2]
    /\ last.pops = 2
    /\ last.n = 1
    /\ last.len = 1
    /\ table = {}
    /\ failure = "none"

\* The client holds the weak handle of a collected allocation while an entry
\* created since is resident.
StaleWeakHeld ==
    \E w \in weaks :
        /\ StrongCount(heap, w) = 0
        /\ \E e \in table : e.hc.data > w.data

====
